---- MODULE Spec2Model ----
(***************************************************************************)
(* A model of the technical-indicator batch engine and of the retention    *)
(* sweep of scripts/calculate_indicators_batch.py.                         *)
(*                                                                         *)
(* Numbers.  The engine works on float64 columns.  A value is modelled as  *)
(* a pair <<n, d>>: for d > 0 the exact rational n/d in lowest terms, and  *)
(* for d = 0 the three IEEE specials  <<0,0>> = NaN, <<1,0>> = +inf,       *)
(* <<-1,0>> = -inf.  Arithmetic is exact, so the model speaks about the    *)
(* formulas of the code and not about binary rounding error.               *)
(***************************************************************************)
EXTENDS Integers, Sequences, FiniteSets, TLC

\* ------------------------------------------------------------------ bounds
MaxRows == 6          \* longest frame handed to the engine (rows from LongBars)
MaxVariedRows == 3    \* longest frame whose rows are drawn from all of Bars
MaxEmaSpan == 12      \* largest EMA span whose values are computed exactly
MaxFiles == 2         \* files in the prices directory

\* ------------------------------------------------------- float64 arithmetic
RECURSIVE GCD(_, _)
GCD(a, b) == IF b = 0 THEN a ELSE GCD(b, a % b)

AbsInt(n) == IF n < 0 THEN -n ELSE n
Sign(n) == IF n > 0 THEN 1 ELSE IF n < 0 THEN -1 ELSE 0

NaN == <<0, 0>>
Norm(n, d) == IF d = 1 THEN <<n, 1>> ELSE LET g == GCD(AbsInt(n), d) IN <<n \div g, d \div g>>
R(n) == <<n, 1>>
Frac(n, d) == Norm(n, d)
IsNaN(x) == x = NaN
IsFinite(x) == x[2] > 0

Neg(x) == <<-x[1], x[2]>>
Add(x, y) ==
    IF x[2] = 1 /\ y[2] = 1 THEN <<x[1] + y[1], 1>>
    ELSE IF IsNaN(x) \/ IsNaN(y) THEN NaN
    ELSE IF IsFinite(x) /\ IsFinite(y)
         THEN LET g == GCD(x[2], y[2])
              IN  Norm(x[1] * (y[2] \div g) + y[1] * (x[2] \div g), (x[2] \div g) * y[2])
    ELSE IF IsFinite(x) THEN y
    ELSE IF IsFinite(y) THEN x
    ELSE IF x = y THEN x ELSE NaN
Sub(x, y) == Add(x, Neg(y))
Mul(x, y) ==
    IF x[2] = 1 /\ y[2] = 1 THEN <<x[1] * y[1], 1>>
    ELSE IF IsFinite(x) /\ IsFinite(y)
    THEN LET g1 == GCD(AbsInt(x[1]), y[2])
             g2 == GCD(AbsInt(y[1]), x[2])
         IN  <<(x[1] \div g1) * (y[1] \div g2), (x[2] \div g2) * (y[2] \div g1)>>
    ELSE <<Sign(x[1]) * Sign(y[1]), 0>>
DivZeroIsNaN(x, y) ==
    IF IsNaN(x) \/ IsNaN(y) THEN NaN
    ELSE IF IsFinite(y) /\ y[1] # 0
         THEN Mul(x, <<Sign(y[1]) * y[2], AbsInt(y[1])>>)
    ELSE IF IsFinite(y) THEN NaN
    ELSE IF IsFinite(x) THEN R(0) ELSE NaN
Div(x, y) ==
    IF IsNaN(x) \/ IsNaN(y) THEN NaN
    ELSE IF IsFinite(y) /\ y[1] # 0
         THEN Mul(x, <<Sign(y[1]) * y[2], AbsInt(y[1])>>)
    ELSE IF IsFinite(y) THEN <<Sign(x[1]), 0>>            \* x / 0
    ELSE IF IsFinite(x) THEN R(0) ELSE NaN                \* x / inf
\* comparisons are false whenever a NaN is involved
Lt(x, y) ==
    /\ ~IsNaN(x) /\ ~IsNaN(y)
    /\ IF IsFinite(x) /\ IsFinite(y) THEN x[1] * y[2] < y[1] * x[2]
       ELSE IF IsFinite(x) THEN y[1] > 0
       ELSE IF IsFinite(y) THEN x[1] < 0
       ELSE x[1] < y[1]
Gt(x, y) == Lt(y, x)
\* Python's min(a, b, ...) / max(a, b, ...): keeps the first unless a later one is smaller / larger
PyMin2(a, b) == IF Lt(b, a) THEN b ELSE a
PyMax2(a, b) == IF Gt(b, a) THEN b ELSE a
PyMin3(a, b, c) == PyMin2(PyMin2(a, b), c)
PyMax3(a, b, c) == PyMax2(PyMax2(a, b), c)

\* DataFrame.round(2): nearest multiple of 1/100, ties to even
Round2(x) ==
    IF ~IsFinite(x) THEN x
    ELSE LET a   == x[1] \div x[2]
             r   == x[1] % x[2]
             q1  == (10 * r) \div x[2]          \* the two decimals, one at a time
             r1  == (10 * r) % x[2]
             q2  == (10 * r1) \div x[2]
             rem == (10 * r1) % x[2]
             lo  == 100 * a + 10 * q1 + q2
             up  == IF 2 * rem > x[2] THEN 1
                    ELSE IF 2 * rem < x[2] THEN 0
                    ELSE IF lo % 2 = 0 THEN 0 ELSE 1
         IN  Norm(lo + up, 100)

\* ------------------------------------------------------------ pandas Series
\* A Series is a sequence of values; row t of the code (0-based) is element t+1.
Min(a, b) == IF a < b THEN a ELSE b
Max(a, b) == IF a > b THEN a ELSE b

\* Series.shift(n), n > 0: the value n rows earlier, NaN on the first n rows
ShiftFuture(s, n) == [t \in 1..Len(s) |-> IF t + n > Len(s) THEN NaN ELSE s[t + n]]
Shift(s, n) == [t \in 1..Len(s) |-> IF t <= n THEN NaN ELSE s[t - n]]

\* element-wise arithmetic of two aligned Series
SAdd(a, b) == [t \in 1..Len(a) |-> Add(a[t], b[t])]
SSub(a, b) == [t \in 1..Len(a) |-> Sub(a[t], b[t])]
SMul(a, b) == [t \in 1..Len(a) |-> Mul(a[t], b[t])]
SDiv(a, b) == [t \in 1..Len(a) |-> Div(a[t], b[t])]
SScale(k, a) == [t \in 1..Len(a) |-> Mul(k, a[t])]

\* Series.diff(): s - s.shift()
Diff(s) == SSub(s, Shift(s, 1))

\* Series.rolling(window=w).sum() with min_periods = w: NaN until the
\* trailing window is full and whenever the window holds a NaN
RECURSIVE SumRange(_, _, _)
SumRange(s, lo, hi) == IF lo > hi THEN R(0) ELSE Add(SumRange(s, lo, hi - 1), s[hi])

RollingSumShort(s, w) ==
    [t \in 1..Len(s) |->
        IF t < w \/ \E k \in (t - w + 1)..t : ~IsFinite(s[k]) THEN NaN
        ELSE SumRange(s, t - w + 2, t)]
RollingSum(s, w) ==
    [t \in 1..Len(s) |->
        IF t < w \/ \E k \in (t - w + 1)..t : ~IsFinite(s[k]) THEN NaN
        ELSE SumRange(s, t - w + 1, t)]

\* Series.rolling(window=w).mean()
RollingMean(s, w) == [t \in 1..Len(s) |-> Div(RollingSum(s, w)[t], R(w))]

\* Series.rolling(window=w).max() / .min()
RECURSIVE MaxRange(_, _, _)
MaxRange(s, lo, hi) == IF lo = hi THEN s[lo] ELSE PyMax2(MaxRange(s, lo, hi - 1), s[hi])
RECURSIVE MinRange(_, _, _)
MinRange(s, lo, hi) == IF lo = hi THEN s[lo] ELSE PyMin2(MinRange(s, lo, hi - 1), s[hi])

RollingMax(s, w) ==
    [t \in 1..Len(s) |->
        IF t < w \/ \E k \in (t - w + 1)..t : ~IsFinite(s[k]) THEN NaN
        ELSE MaxRange(s, t - w + 1, t)]
RollingMin(s, w) ==
    [t \in 1..Len(s) |->
        IF t < w \/ \E k \in (t - w + 1)..t : ~IsFinite(s[k]) THEN NaN
        ELSE MinRange(s, t - w + 1, t)]

\* Series.cumsum(): running sum that skips NaN cells (skipna=True)
RECURSIVE CumSumAt(_, _)
CumSumAt(s, t) ==
    IF t = 0 THEN R(0)
    ELSE IF IsNaN(s[t]) THEN CumSumAt(s, t - 1)
    ELSE Add(CumSumAt(s, t - 1), s[t])

CumSumNoSkip(s) == [t \in 1..Len(s) |-> SumRange(s, 1, t)]
CumSum(s) == [t \in 1..Len(s) |-> IF IsNaN(s[t]) THEN NaN ELSE CumSumAt(s, t)]

\* Series.ewm(span, adjust).mean(): one step of the online weighted average
\* (ignore_na=False, min_periods=0)
EwmStep(st, cur, alpha, adjust) ==
    LET is_obs  == ~IsNaN(cur)
        old_wt1 == Mul(st.old_wt, Sub(R(1), alpha))
        new_wt  == IF adjust THEN R(1) ELSE alpha
    IN  IF ~IsNaN(st.weighted)
        THEN IF is_obs
             THEN [weighted |-> IF st.weighted # cur
                                THEN Div(Add(Mul(old_wt1, st.weighted), Mul(new_wt, cur)),
                                         Add(old_wt1, new_wt))
                                ELSE st.weighted,
                   old_wt   |-> IF adjust THEN Add(old_wt1, new_wt) ELSE R(1)]
             ELSE [weighted |-> st.weighted, old_wt |-> old_wt1]
        ELSE IF is_obs THEN [weighted |-> cur, old_wt |-> st.old_wt]
        ELSE st

\* the states of the online average after each of the first t values
RECURSIVE EwmStates(_, _, _, _)
EwmStates(s, alpha, adjust, t) ==
    IF t = 1 THEN <<[weighted |-> s[1], old_wt |-> R(1)]>>
    ELSE LET before == EwmStates(s, alpha, adjust, t - 1)
         IN  Append(before, EwmStep(before[t - 1], s[t], alpha, adjust))

Ewm(s, span, adjust) ==
    IF Len(s) = 0 THEN <<>>
    ELSE LET states == EwmStates(s, Frac(2, span + 1), adjust, Len(s))
         IN  [t \in 1..Len(s) |-> states[t].weighted]

\* --------------------------------------------------------------- the frame
\* One row of a price file.  The date column is kept apart (see the sweep).
RequiredCols == <<"open", "high", "low", "close", "volume">>

\* The rows the model draws from: three plain bars with rising closes, a
\* flat bar without range or volume, and a wide bar with a different volume.
\* The longest frames are built from the first two plain bars.
LongBars ==
    { [open |-> 1, high |-> 2, low |-> 1, close |-> 1, volume |-> 2],
      [open |-> 2, high |-> 3, low |-> 2, close |-> 2, volume |-> 2] }

Bars ==
    LongBars \cup
    { [open |-> 3, high |-> 4, low |-> 3, close |-> 3, volume |-> 2],
      [open |-> 2, high |-> 2, low |-> 2, close |-> 2, volume |-> 0],
      [open |-> 3, high |-> 4, low |-> 1, close |-> 2, volume |-> 1] }

\* df[name] as a Series
Column(df, name) == [t \in 1..Len(df.rows) |-> R(df.rows[t][name])]

SeqToSet(q) == {q[k] : k \in 1..Len(q)}

\* ---------------------------------------------------------- the indicators
EmaPeriods == <<3, 5, 8, 10, 12, 15, 20, 26, 30, 35, 40, 45, 50, 60, 100, 200>>
SmaPeriods == <<5, 10, 15, 20, 30, 50, 60, 100, 200>>

IndicatorNames ==
    <<"macd", "macd_signal", "macd_hist", "ema_3", "ema_5", "ema_8", "ema_10", "ema_12",
      "ema_15", "ema_20", "ema_26", "ema_30", "ema_35", "ema_40", "ema_45", "ema_50",
      "ema_60", "ema_100", "ema_200", "sma_5", "sma_10", "sma_15", "sma_20", "sma_30",
      "sma_50", "sma_60", "sma_100", "sma_200", "wma_10", "wma_20", "wma_30", "dema_10",
      "dema_20", "dema_30", "tema_10", "tema_20", "tema_30", "trix", "trix_signal",
      "rsi_6", "rsi_9", "rsi_12", "rsi_14", "rsi_21", "rsi_24", "cci_14", "cci_20",
      "roc_12", "roc_25", "mom_10", "mom_14", "mom_20", "willr_14", "willr_21",
      "stoch_k_9", "stoch_d_9", "stoch_j_9", "stoch_k_14", "stoch_d_14", "stoch_j_14",
      "uo", "bb_middle_20", "bb_upper_20", "bb_lower_20", "bb_width_20", "bb_pct_20",
      "bb_middle_50", "bb_upper_50", "bb_lower_50", "bb_width_50", "bb_pct_50", "atr_7",
      "atr_14", "atr_21", "std_10", "std_20", "std_30", "kc_middle", "kc_upper",
      "kc_lower", "dc_upper", "dc_lower", "dc_middle", "obv", "vol_ma_5", "vol_ma_10",
      "vol_ma_20", "vol_ratio", "mfi", "ad_line", "vwap", "cmf", "adx", "pos_di", "neg_di",
      "aroon_up", "aroon_down", "aroon_osc", "pivot", "r1", "r2", "s1", "s2", "sar",
      "price_change", "price_change_pct", "true_range", "typical_price", "median_price",
      "weighted_close", "intraday_intensity">>

\* calculate_ema / close.ewm(span=period, adjust=False).mean()
calculate_ema_adjusted(prices, period) == Ewm(prices, period, TRUE)
calculate_ema(prices, period) == Ewm(prices, period, FALSE)

\* calculate_sma / close.rolling(window=period).mean()
calculate_sma_expanding(prices, period) ==
    [t \in 1..Len(prices) |->
        Div(SumRange(prices, Max(1, t - period + 1), t), R(Min(t, period)))]
calculate_sma(prices, period) == RollingMean(prices, period)

\* 8. RSI / calculate_rsi.  delta.where(cond, 0) keeps delta where cond holds
\* and puts 0 elsewhere, the NaN of row 0 included.  A window without losses
\* has mean loss 0 (as -0.0 in some pandas builds: gain / loss is then -inf
\* rather than +inf, and 100 - 100 / (1 + rs) is 100 either way).
RsiPeriods == <<6, 9, 12, 14, 21, 24>>

calculate_rsi_signed_loss(prices, period) ==
    LET delta == Diff(prices)
        gain  == RollingMean([t \in 1..Len(prices) |->
                                 IF Gt(delta[t], R(0)) THEN delta[t] ELSE R(0)], period)
        loss  == RollingMean([t \in 1..Len(prices) |->
                                 IF Lt(delta[t], R(0)) THEN delta[t] ELSE R(0)], period)
        rs    == SDiv(gain, loss)
    IN  [t \in 1..Len(prices) |-> Sub(R(100), Div(R(100), Add(R(1), rs[t])))]
calculate_rsi(prices, period) ==
    LET delta == Diff(prices)
        gain  == RollingMean([t \in 1..Len(prices) |->
                                 IF Gt(delta[t], R(0)) THEN delta[t] ELSE R(0)], period)
        loss  == RollingMean([t \in 1..Len(prices) |->
                                 IF Lt(delta[t], R(0)) THEN Neg(delta[t]) ELSE R(0)], period)
        rs    == SDiv(gain, loss)
    IN  [t \in 1..Len(prices) |-> Sub(R(100), Div(R(100), Add(R(1), rs[t])))]

\* 12. Williams %R
WilliamsR(high, low, close, period) ==
    LET highest_high == RollingMax(high, period)
        lowest_low   == RollingMin(low, period)
    IN  SScale(R(-100), SDiv(SSub(highest_high, close), SSub(highest_high, lowest_low)))

\* 13. Stochastic oscillator: %K, %D = 3-row mean of %K, %J = 3K - 2D
StochK(high, low, close, period) ==
    LET lowest_low   == RollingMin(low, period)
        highest_high == RollingMax(high, period)
    IN  SScale(R(100), SDiv(SSub(close, lowest_low), SSub(highest_high, lowest_low)))
StochD(high, low, close, period) == RollingMean(StochK(high, low, close, period), 3)
StochJ(high, low, close, period) ==
    SSub(SScale(R(3), StochK(high, low, close, period)),
         SScale(R(2), StochD(high, low, close, period)))

\* pd.concat([a, b, c], axis=1).max(axis=1): row maximum that skips NaN
RowMax3(a, b, c) ==
    [t \in 1..Len(a) |->
        LET m1 == IF IsNaN(a[t]) THEN b[t] ELSE IF IsNaN(b[t]) THEN a[t] ELSE PyMax2(a[t], b[t])
        IN  IF IsNaN(m1) THEN c[t] ELSE IF IsNaN(c[t]) THEN m1 ELSE PyMax2(m1, c[t])]
SAbs(a) == [t \in 1..Len(a) |-> <<AbsInt(a[t][1]), a[t][2]>>]

\* 16. ATR: rolling mean of the true range
TrueRange(high, low, close) ==
    RowMax3(SSub(high, low), SAbs(SSub(high, Shift(close, 1))), SAbs(SSub(low, Shift(close, 1))))
ATR(high, low, close, period) == RollingMean(TrueRange(high, low, close), period)

\* 23. MFI: 14-row sums of the money flow of rising and of falling typical price
mfi_period == 14
TypicalPrice(high, low, close) == SScale(Frac(1, 3), SAdd(SAdd(high, low), close))
MFI(high, low, close, volume) ==
    LET tp == TypicalPrice(high, low, close)
        mf == SMul(tp, volume)
        positive_mf == RollingSum([t \in 1..Len(tp) |->
                          IF Gt(tp[t], Shift(tp, 1)[t]) THEN mf[t] ELSE R(0)], mfi_period)
        negative_mf == RollingSum([t \in 1..Len(tp) |->
                          IF Lt(tp[t], Shift(tp, 1)[t]) THEN mf[t] ELSE R(0)], mfi_period)
    IN  [t \in 1..Len(tp) |->
            Sub(R(100), Div(R(100), Add(R(1), Div(positive_mf[t], negative_mf[t]))))]

\* 24. the money flow multiplier of the A/D line
MoneyFlowMultiplier(high, low, close) ==
    SDiv(SSub(SSub(close, low), SSub(high, close)), SSub(high, low))

\* 36. Intraday intensity
IntradayIntensity(high, low, close, volume) ==
    SMul(SDiv(SSub(SSub(SScale(R(2), close), high), low), SSub(high, low)), volume)

\* 20. OBV: the sequential pass over close and volume
OBVNextPrevVolume(prev, close, volume, i) ==
    IF Gt(close[i], close[i - 1]) THEN Add(prev, volume[i - 1])
    ELSE IF Lt(close[i], close[i - 1]) THEN Sub(prev, volume[i - 1])
    ELSE prev
OBVNext(prev, close, volume, i) ==
    IF Gt(close[i], close[i - 1]) THEN Add(prev, volume[i])
    ELSE IF Lt(close[i], close[i - 1]) THEN Sub(prev, volume[i])
    ELSE prev

RECURSIVE OBVListSkipsFlat(_, _, _)
OBVListSkipsFlat(close, volume, n) ==
    IF n <= 1 THEN <<R(0)>>
    ELSE LET obv == OBVListSkipsFlat(close, volume, n - 1)
         IN  IF close[n] = close[n - 1] THEN obv
             ELSE Append(obv, OBVNext(obv[Len(obv)], close, volume, n))
RECURSIVE OBVList(_, _, _)
OBVList(close, volume, n) ==
    IF n <= 1 THEN <<R(0)>>
    ELSE LET obv == OBVList(close, volume, n - 1)
         IN  Append(obv, OBVNext(obv[n - 1], close, volume, n))

\* OBV of generate_stock_data_with_indicators:
\* (np.sign(close.diff()) * volume).fillna(0).cumsum()
SignOf(x) == IF IsNaN(x) THEN NaN ELSE R(Sign(x[1]))
FillNa0(s) == [t \in 1..Len(s) |-> IF IsNaN(s[t]) THEN R(0) ELSE s[t]]
OBVVectorized(close, volume) ==
    CumSum(FillNa0(SMul([t \in 1..Len(close) |-> SignOf(Diff(close)[t])], volume)))

\* 29. Pivot points
PivotCurrentBar(high, low, close) == SScale(Frac(1, 3), SAdd(SAdd(high, low), close))
Pivot(high, low, close) ==
    SScale(Frac(1, 3), SAdd(SAdd(Shift(high, 1), Shift(low, 1)), Shift(close, 1)))

\* 30. Parabolic SAR: the state before the loop and one pass of the loop body
sar_af == Frac(2, 100)
sar_max_af == Frac(2, 10)

SARInitEpLow(high, low) ==
    [uptrend |-> TRUE, sar |-> <<low[1]>>, ep |-> low[1], af_current |-> sar_af]
SARInit(high, low) ==
    [uptrend |-> TRUE, sar |-> <<low[1]>>, ep |-> high[1], af_current |-> sar_af]

\* i is the 1-based row; the code's i is i - 1.
\* sar_value before the cross test: the step towards ep, kept outside the
\* range of the one or two bars before row i
SARTentativeOwnBar(st, high, low, i) ==
    LET last == st.sar[Len(st.sar)]
    IN  IF st.uptrend
        THEN PyMin3(Add(last, Mul(st.af_current, Sub(st.ep, last))), low[i], low[i - 1])
        ELSE PyMax3(Sub(last, Mul(st.af_current, Sub(last, st.ep))), high[i], high[i - 1])
SARTentative(st, high, low, i) ==
    LET last == st.sar[Len(st.sar)]
        low2  == IF i > 2 THEN low[i - 2] ELSE low[i - 1]
        high2 == IF i > 2 THEN high[i - 2] ELSE high[i - 1]
    IN  IF st.uptrend
        THEN PyMin3(Add(last, Mul(st.af_current, Sub(st.ep, last))), low[i - 1], low2)
        ELSE PyMax3(Sub(last, Mul(st.af_current, Sub(last, st.ep))), high[i - 1], high2)

\* a new extreme moves ep and raises af_current
SARExtremeUncapped(st, high, low, i) ==
    LET newext == IF st.uptrend THEN Gt(high[i], st.ep) ELSE Lt(low[i], st.ep)
    IN  [ep |-> IF ~newext THEN st.ep ELSE IF st.uptrend THEN high[i] ELSE low[i],
         af_current |-> IF newext THEN Add(st.af_current, sar_af) ELSE st.af_current]
SARExtreme(st, high, low, i) ==
    LET newext == IF st.uptrend THEN Gt(high[i], st.ep) ELSE Lt(low[i], st.ep)
    IN  [ep |-> IF ~newext THEN st.ep ELSE IF st.uptrend THEN high[i] ELSE low[i],
         af_current |-> IF newext THEN PyMin2(Add(st.af_current, sar_af), sar_max_af)
                        ELSE st.af_current]

\* the cross test against sar_value
SARCrossOtherSide(st, tentative, high, low, i) ==
    IF st.uptrend THEN Lt(high[i], tentative) ELSE Gt(low[i], tentative)
SARCross(st, tentative, high, low, i) ==
    IF st.uptrend THEN Lt(low[i], tentative) ELSE Gt(high[i], tentative)

\* one pass of the loop body
SARStepCrossFirst(st, high, low, i) ==
    LET tentative == SARTentative(st, high, low, i)
        ext  == SARExtreme(st, high, low, i)
        flip == SARCross(st, tentative, high, low, i)
    IN  [uptrend    |-> IF flip THEN ~st.uptrend ELSE st.uptrend,
         sar        |-> Append(st.sar, IF flip THEN st.ep ELSE tentative),
         ep         |-> IF ~flip THEN ext.ep ELSE IF st.uptrend THEN low[i] ELSE high[i],
         af_current |-> IF flip THEN sar_af ELSE ext.af_current]
SARStepKeepsAf(st, high, low, i) ==
    LET tentative == SARTentative(st, high, low, i)
        ext  == SARExtreme(st, high, low, i)
        flip == SARCross(st, tentative, high, low, i)
    IN  [uptrend    |-> IF flip THEN ~st.uptrend ELSE st.uptrend,
         sar        |-> Append(st.sar, IF flip THEN ext.ep ELSE tentative),
         ep         |-> IF ~flip THEN ext.ep ELSE IF st.uptrend THEN low[i] ELSE high[i],
         af_current |-> ext.af_current]
SARStep(st, high, low, i) ==
    LET tentative == SARTentative(st, high, low, i)
        ext  == SARExtreme(st, high, low, i)
        flip == SARCross(st, tentative, high, low, i)
    IN  [uptrend    |-> IF flip THEN ~st.uptrend ELSE st.uptrend,
         sar        |-> Append(st.sar, IF flip THEN ext.ep ELSE tentative),
         ep         |-> IF ~flip THEN ext.ep ELSE IF st.uptrend THEN low[i] ELSE high[i],
         af_current |-> IF flip THEN sar_af ELSE ext.af_current]

RECURSIVE SARState(_, _, _)
SARState(high, low, n) ==
    IF n <= 1 THEN SARInit(high, low)
    ELSE SARStep(SARState(high, low, n - 1), high, low, n)

\* ------------------------------------------------- calculate_all_indicators
ModelledEmaPeriods == {p \in SeqToSet(EmaPeriods) : p <= MaxEmaSpan}
EmaName(p) == "ema_" \o ToString(p)
SmaName(p) == "sma_" \o ToString(p)
EmaNames == {EmaName(p) : p \in ModelledEmaPeriods}
SmaNames == {SmaName(p) : p \in SeqToSet(SmaPeriods)}
EmaPeriodOf == [name \in EmaNames |-> CHOOSE p \in ModelledEmaPeriods : name = EmaName(p)]
SmaPeriodOf == [name \in SmaNames |-> CHOOSE p \in SeqToSet(SmaPeriods) : name = SmaName(p)]
RsiName(p) == "rsi_" \o ToString(p)
RsiNames == {RsiName(p) : p \in SeqToSet(RsiPeriods)}
RsiPeriodOf == [name \in RsiNames |-> CHOOSE p \in SeqToSet(RsiPeriods) : name = RsiName(p)]
OtherNames ==
    {"obv", "ad_line", "vwap", "pivot", "r1", "r2", "s1", "s2", "sar",
     "price_change", "true_range", "typical_price",
     "willr_14", "willr_21", "stoch_k_9", "stoch_d_9", "stoch_j_9", "stoch_k_14",
     "stoch_d_14", "stoch_j_14", "atr_7", "atr_14", "atr_21", "kc_middle", "kc_upper",
     "kc_lower", "mfi", "intraday_intensity"}

\* the columns whose values the model computes (the other names of
\* IndicatorNames are carried as column names only)
ModelledNames == EmaNames \cup SmaNames \cup RsiNames \cup OtherNames

\* 18. Keltner channels: the span of the middle line
kc_period == 20

\* the dictionary `indicators` before rounding, for a frame with all
\* required columns and at least one row
IndicatorDict(df) ==
    LET close  == Column(df, "close")
        high   == Column(df, "high")
        low    == Column(df, "low")
        volume == Column(df, "volume")
        n      == Len(df.rows)
        tp     == TypicalPrice(high, low, close)
        pivot  == Pivot(high, low, close)
        range1 == SSub(Shift(high, 1), Shift(low, 1))
        mfm    == MoneyFlowMultiplier(high, low, close)
        ema    == calculate_ema(close, kc_period)
        atr    == ATR(high, low, close, 14)
    IN  [name \in EmaNames |-> calculate_ema(close, EmaPeriodOf[name])]
        @@ [name \in SmaNames |-> calculate_sma(close, SmaPeriodOf[name])]
        @@ [name \in RsiNames |-> calculate_rsi(close, RsiPeriodOf[name])]
        @@ [obv |-> OBVList(close, volume, n),
            ad_line |-> CumSum(SMul(mfm, volume)),
            vwap |-> SDiv(CumSum(SMul(tp, volume)), CumSum(volume)),
            pivot |-> pivot,
            r1 |-> SSub(SScale(R(2), pivot), Shift(low, 1)),
            r2 |-> SAdd(pivot, range1),
            s1 |-> SSub(SScale(R(2), pivot), Shift(high, 1)),
            s2 |-> SSub(pivot, range1),
            sar |-> SARState(high, low, n).sar,
            price_change |-> Diff(close),
            true_range |-> TrueRange(high, low, close),
            typical_price |-> tp,
            willr_14 |-> WilliamsR(high, low, close, 14),
            willr_21 |-> WilliamsR(high, low, close, 21),
            stoch_k_9 |-> StochK(high, low, close, 9),
            stoch_d_9 |-> StochD(high, low, close, 9),
            stoch_j_9 |-> StochJ(high, low, close, 9),
            stoch_k_14 |-> StochK(high, low, close, 14),
            stoch_d_14 |-> StochD(high, low, close, 14),
            stoch_j_14 |-> StochJ(high, low, close, 14),
            atr_7 |-> ATR(high, low, close, 7),
            atr_14 |-> atr,
            atr_21 |-> ATR(high, low, close, 21),
            kc_middle |-> ema,
            kc_upper |-> SAdd(ema, SScale(R(2), atr)),
            kc_lower |-> SSub(ema, SScale(R(2), atr)),
            mfi |-> MFI(high, low, close, volume),
            intraday_intensity |-> IntradayIntensity(high, low, close, volume)]

\* indicators_df[col].round(2) for the float columns; obv is built from the
\* integer volumes and keeps its integer dtype
RoundColumns(ind) ==
    [name \in DOMAIN ind |->
        IF name = "obv" THEN ind[name]
        ELSE [t \in 1..Len(ind[name]) |-> Round2(ind[name][t])]]

\* str.strip().lower() on the column names the model uses
NormalizeName(name) ==
    IF name = "Close" THEN "close" ELSE IF name = " volume " THEN "volume" ELSE name

\* required_cols that are not among the frame's columns, in required order
MissingColsNoVolume(cols) ==
    SelectSeq(<<"open", "high", "low", "close">>, LAMBDA c : c \notin SeqToSet(cols))
MissingColsNormalized(cols) ==
    SelectSeq(RequiredCols, LAMBDA c : c \notin {NormalizeName(x) : x \in SeqToSet(cols)})
MissingCols(cols) == SelectSeq(RequiredCols, LAMBDA c : c \notin SeqToSet(cols))

\* How a call of the engine ends: it raises on the first missing required
\* column, it raises on a frame without rows (low.iloc[0]), otherwise it
\* returns a frame with the indicator columns after the original ones.
engine_outcome(df) ==
    IF MissingCols(df.cols) # <<>>
    THEN [status |-> "raise", error |-> "ValueError",
          message |-> [text |-> "missing_required_column", cols |-> <<MissingCols(df.cols)[1]>>]]
    ELSE IF df.rows = <<>>
    THEN [status |-> "raise", error |-> "IndexError",
          message |-> [text |-> "index_out_of_bounds", cols |-> <<>>]]
    ELSE [status |-> "ok", cols |-> df.cols \o IndicatorNames]

\* The engine: the outcome and, when it returns, the rows of the copy and
\* the rounded indicator columns.
calculate_all_indicators(df) ==
    IF engine_outcome(df).status = "raise" THEN engine_outcome(df)
    ELSE [status |-> "ok",
          cols |-> engine_outcome(df).cols,
          rows |-> df.rows,
          indicators |-> RoundColumns(IndicatorDict(df))]

\* ---------------------------------------------------------------- the state
VARIABLES
    df,             \* the frame a caller hands to calculate_all_indicators
    out,            \* what that call produced (NoResult before the call)
    now,            \* datetime.now() when main starts, in ticks
    disk,           \* data/prices: file name -> content, or Absent
    disk0,          \* the directory as it was when main started
    csv_files,      \* the glob listing
    cutoff_date,    \* now - 180 days, in ticks
    idx,            \* the loop counter i of main
    deleted_files, updated_files, error_files,
    log,            \* the per-file lines main prints: file, status, message
    deleted_list,   \* the names written to deleted_files.txt (empty: not written)
    pc              \* where main is

sweepvars == <<now, disk, disk0, csv_files, cutoff_date, idx, deleted_files,
               updated_files, error_files, log, deleted_list, pc>>
vars == <<df, out, now, disk, disk0, csv_files, cutoff_date, idx, deleted_files,
          updated_files, error_files, log, deleted_list, pc>>

NoResult == [status |-> "none"]
Absent == [absent |-> TRUE]

\* column layouts of the frames and files the model draws from
StdCols == <<"date">> \o RequiredCols
NoDateCols == RequiredCols
NoVolumeCols == <<"date", "open", "high", "low", "close">>
CasedCols == <<"date", "open", "high", "low", "Close", " volume ">>

\* ------------------------------------------------------- the engine, called
MaxBadRows == 1       \* rows of the frames that lack a required column

EngineLayouts == {StdCols, NoVolumeCols, CasedCols}

EngineInit ==
    /\ df \in {[cols |-> c, rows |-> <<b>>] : c \in EngineLayouts, b \in Bars}
    /\ out = NoResult
    /\ now = 0 /\ disk = <<>> /\ disk0 = <<>> /\ csv_files = <<>>
    /\ cutoff_date = 0 /\ idx = 0
    /\ deleted_files = <<>> /\ updated_files = <<>> /\ error_files = <<>>
    /\ log = <<>> /\ deleted_list = <<>> /\ pc = "idle"

\* the caller's series gets one more trading day
AppendBar(b) ==
    /\ IF MissingCols(df.cols) # <<>> THEN Len(df.rows) < MaxBadRows
       ELSE \/ Len(df.rows) < MaxVariedRows
            \/ /\ Len(df.rows) < MaxRows
               /\ SeqToSet(df.rows) \cup {b} \subseteq LongBars
    /\ df' = [df EXCEPT !.rows = Append(@, b)]
    /\ out' = NoResult
    /\ UNCHANGED sweepvars

\* result = calculate_all_indicators(df); df itself is left alone (df.copy())
CalculateInPlace ==
    /\ out = NoResult
    /\ out' = calculate_all_indicators(df)
    /\ df' = IF out'.status = "ok" THEN [df EXCEPT !.cols = out'.cols] ELSE df
    /\ UNCHANGED sweepvars
Calculate ==
    /\ out = NoResult
    /\ out' = calculate_all_indicators(df)
    /\ UNCHANGED <<df, sweepvars>>

EngineNext == (\E b \in Bars : AppendBar(b)) \/ Calculate

SpecEngine == EngineInit /\ [][EngineNext]_vars

\* ------------------------------------------------ long frames of a quiet stock
\* Frames long enough for the 9- and 14-row windows.  The close stays where
\* it is, so that every EMA stays exact; the bar is either still (no range)
\* or ranging, and a frame switches between the two at most MaxChanges times.
\* Besides the engine, localfindata.indicators.add_indicators is called on
\* these frames.
MaxQuietRows == 14    \* longest quiet frame
MaxChanges == 1       \* switches between the two quiet bars within a frame

QuietBars ==
    { [open |-> 2, high |-> 2, low |-> 2, close |-> 2, volume |-> 2],
      [open |-> 2, high |-> 4, low |-> 2, close |-> 2, volume |-> 1] }

QuietLayouts == {StdCols, NoVolumeCols, NoDateCols}

Changes(rows) == Cardinality({t \in 2..Len(rows) : rows[t] # rows[t - 1]})

\* the columns add_indicators appends under DEFAULT_INDICATOR_PERIODS
AddedNames ==
    <<"ema_5", "ema_20", "ema_50", "ema_100", "ema_200", "bb_upper_20", "bb_lower_20",
      "macd", "macds", "macdh", "rsi_14", "stoch_k_14", "stoch_d_14", "stoch_j_14",
      "atr_14", "adx", "pos_di", "neg_di", "obv", "sar">>

\* the columns add_indicators reads, in the order it reads them
ReadCols == <<"close", "high", "low", "volume">>

\* add_indicators(frame): the ways the call can end.  The frame has a
\* RangeIndex, so without a date column _ensure_datetime_index raises; a
\* column that is read and missing raises KeyError.  The values come from
\* the ta library, which may also reject a short series: both endings are
\* kept.  On return the date index is reset into the first column.
add_indicators(frame) ==
    LET others  == SelectSeq(frame.cols, LAMBDA c : c # "date")
        missing == SelectSeq(ReadCols, LAMBDA c : c \notin SeqToSet(frame.cols))
    IN  IF "date" \notin SeqToSet(frame.cols)
        THEN {[status |-> "raise", error |-> "ValueError",
               message |-> [text |-> "no_datetime_index_or_date_column", cols |-> <<>>]]}
        ELSE IF missing # <<>>
        THEN {[status |-> "raise", error |-> "KeyError",
               message |-> [text |-> "key_error", cols |-> <<missing[1]>>]]}
        ELSE {[status |-> "added", cols |-> <<"date">> \o others \o AddedNames,
               rows |-> frame.rows],
              [status |-> "raise", error |-> "ta",
               message |-> [text |-> "library_error", cols |-> <<>>]]}

QuietInit ==
    /\ df \in {[cols |-> c, rows |-> <<b>>] : c \in QuietLayouts, b \in QuietBars}
    /\ out = NoResult
    /\ now = 0 /\ disk = <<>> /\ disk0 = <<>> /\ csv_files = <<>>
    /\ cutoff_date = 0 /\ idx = 0
    /\ deleted_files = <<>> /\ updated_files = <<>> /\ error_files = <<>>
    /\ log = <<>> /\ deleted_list = <<>> /\ pc = "idle"

AppendQuiet(b) ==
    /\ IF df.cols # StdCols THEN Len(df.rows) < MaxBadRows
       ELSE /\ Len(df.rows) < MaxQuietRows
            /\ Changes(Append(df.rows, b)) <= MaxChanges
    /\ df' = [df EXCEPT !.rows = Append(@, b)]
    /\ out' = NoResult
    /\ UNCHANGED sweepvars

\* enriched = add_indicators(df); it works on copies of df
AddIndicators ==
    /\ out = NoResult
    /\ out' \in add_indicators(df)
    /\ UNCHANGED <<df, sweepvars>>

QuietNext == (\E b \in QuietBars : AppendQuiet(b)) \/ Calculate \/ AddIndicators

SpecQuiet == QuietInit /\ [][QuietNext]_vars

\* ------------------------------------------- calculate_rsi on a price series
\* The generator script applies calculate_rsi to a close series on its own.
\* The series is a walk from StartPrice with the steps of PriceSteps; the
\* frame holds the close column only.
MaxSeriesLen == 10    \* longest price series
PriceSteps == {-1, 2}
StartPrice == MaxSeriesLen
SeriesPeriods == {p \in SeqToSet(RsiPeriods) : p < MaxSeriesLen}

SeriesInit ==
    /\ df = [cols |-> <<"close">>, rows |-> <<[close |-> StartPrice]>>]
    /\ out = NoResult
    /\ now = 0 /\ disk = <<>> /\ disk0 = <<>> /\ csv_files = <<>>
    /\ cutoff_date = 0 /\ idx = 0
    /\ deleted_files = <<>> /\ updated_files = <<>> /\ error_files = <<>>
    /\ log = <<>> /\ deleted_list = <<>> /\ pc = "idle"

AppendPrice(step) ==
    /\ Len(df.rows) < MaxSeriesLen
    /\ df' = [df EXCEPT !.rows = Append(@, [close |-> df.rows[Len(df.rows)].close + step])]
    /\ out' = NoResult
    /\ UNCHANGED sweepvars

\* rsi = calculate_rsi(prices, period); the engine stores it rounded
CalculateRSI(period) ==
    /\ out = NoResult
    /\ out' = [status |-> "rsi", period |-> period,
               rsi |-> calculate_rsi(Column(df, "close"), period)]
    /\ UNCHANGED <<df, sweepvars>>

SeriesNext ==
    \/ \E step \in PriceSteps : AppendPrice(step)
    \/ \E period \in SeriesPeriods : CalculateRSI(period)

SpecSeries == SeriesInit /\ [][SeriesNext]_vars

\* ------------------------------------------ the Parabolic SAR loop, by pass
\* calculate_all_indicators' loop over the bars, one pass per step.  df holds
\* the high and low columns; out holds the loop's variables.
MaxSarBars == 4       \* bars of the series drawn freely from SarBars
MaxTrendBars == 11    \* bars of the series that widen one tick at a time

\* plain bars, a wide bar, a bar without range and a bar with low above high
SarBars ==
    { [high |-> 2, low |-> 1], [high |-> 4, low |-> 3], [high |-> 4, low |-> 1],
      [high |-> 2, low |-> 2], [high |-> 1, low |-> 2] }
TrendStart == [high |-> 2, low |-> 1]
TrendSteps == {"higher high", "lower low"}

Widen(b, step) ==
    IF step = "higher high" THEN [b EXCEPT !.high = @ + 1] ELSE [b EXCEPT !.low = @ - 1]
\* every bar widens the one before it by one tick
Widening(rows) ==
    /\ rows[1] = TrendStart
    /\ \A t \in 2..Len(rows) : \E step \in TrendSteps : rows[t] = Widen(rows[t - 1], step)

SarInitial ==
    /\ df \in {[cols |-> <<"high", "low">>, rows |-> <<b>>] : b \in SarBars}
    /\ out = NoResult
    /\ now = 0 /\ disk = <<>> /\ disk0 = <<>> /\ csv_files = <<>>
    /\ cutoff_date = 0 /\ idx = 0
    /\ deleted_files = <<>> /\ updated_files = <<>> /\ error_files = <<>>
    /\ log = <<>> /\ deleted_list = <<>> /\ pc = "idle"

\* the series the loop is given grows before the call
AppendSarBar(b) ==
    /\ out = NoResult
    /\ Len(df.rows) < MaxSarBars
    /\ df' = [df EXCEPT !.rows = Append(@, b)]
    /\ UNCHANGED <<out, sweepvars>>

ExtendTrend(step) ==
    /\ out = NoResult
    /\ Len(df.rows) < MaxTrendBars
    /\ Widening(df.rows)
    /\ df' = [df EXCEPT !.rows = Append(@, Widen(df.rows[Len(df.rows)], step))]
    /\ UNCHANGED <<out, sweepvars>>

\* af, max_af, uptrend, sar, ep, af_current before the loop; i is the code's i
SARBegin ==
    /\ out = NoResult
    /\ out' = [status |-> "loop", i |-> 1,
               st |-> SARInit(Column(df, "high"), Column(df, "low"))]
    /\ UNCHANGED <<df, sweepvars>>

\* for i in range(1, len(df)): one pass
SARLoop ==
    /\ out.status = "loop"
    /\ out.i < Len(df.rows)
    /\ out' = [out EXCEPT !.i = @ + 1,
                          !.st = SARStep(out.st, Column(df, "high"), Column(df, "low"),
                                         out.i + 1)]
    /\ UNCHANGED <<df, sweepvars>>

\* indicators['sar'] = sar
SAREnd ==
    /\ out.status = "loop"
    /\ out.i >= Len(df.rows)
    /\ out' = [status |-> "sar", sar |-> out.st.sar]
    /\ UNCHANGED <<df, sweepvars>>

SarNext ==
    \/ \E b \in SarBars : AppendSarBar(b)
    \/ \E step \in TrendSteps : ExtendTrend(step)
    \/ SARBegin
    \/ SARLoop
    \/ SAREnd

SpecSAR == SarInitial /\ [][SarNext]_vars

\* ------------------------------------------- the downloader and its progress
\* download_all_stocks of get_all_us_stock_price.py, run after run.  It keeps
\* its state in the variables above: df is the tickers argument, disk the
\* file download_progress.json, disk0 that file as the run found it, out the
\* run's completed set and failed list, csv_files the remaining tickers, idx
\* the loop's i, log the downloads of the run, now the number of runs started
\* and updated_files the set of tickers whose download has ever succeeded.
MaxTickers == 11      \* tickers of the longest list asked for
MaxRuns == 2          \* runs of the downloader
SaveEvery == 10       \* progress is saved every 10 tickers

AllTickers == [k \in 1..MaxTickers |-> k]
TickerLists == {AllTickers, <<MaxTickers, 1>>}
\* the tickers whose download may fail; the others always succeed
Flaky == {1, MaxTickers}
NoData == "no data"

load_progress(file) ==
    IF file = Absent THEN [completed |-> {}, failed |-> <<>>] ELSE file

FailedTickers(failed) == {failed[k].ticker : k \in 1..Len(failed)}
Filter(q, S) == SelectSeq(q, LAMBDA t : t \notin S)

\* remaining_tickers = [t for t in tickers if t not in completed]
remaining_skips_failed(tickers, progress) ==
    Filter(tickers, progress.completed \cup FailedTickers(progress.failed))
remaining(tickers, progress) == Filter(tickers, progress.completed)

DownloadInit ==
    /\ df = <<>> /\ out = NoResult
    /\ now = 0 /\ disk = Absent /\ disk0 = Absent /\ csv_files = <<>>
    /\ cutoff_date = 0 /\ idx = 0
    /\ deleted_files = <<>> /\ updated_files = {} /\ error_files = <<>>
    /\ log = <<>> /\ deleted_list = <<>> /\ pc = "idle"

\* download_all_stocks up to its loop
StartRun(tickers) ==
    /\ pc \in {"idle", "done", "interrupted"}
    /\ now < MaxRuns
    /\ now' = now + 1
    /\ df' = tickers
    /\ disk0' = disk
    /\ out' = [status |-> "run",
               completed |-> load_progress(disk).completed,
               failed |-> load_progress(disk).failed]
    /\ csv_files' = remaining(tickers, load_progress(disk))
    /\ idx' = 0 /\ log' = <<>> /\ pc' = "loop"
    /\ UNCHANGED <<disk, cutoff_date, deleted_files, updated_files, error_files,
                   deleted_list>>

\* one pass of the loop: download_single_stock answers (True, None) or
\* (False, error); every 10th pass saves the progress
DownloadOne(success) ==
    /\ pc = "loop"
    /\ idx < Len(csv_files)
    /\ LET ticker == csv_files[idx + 1]
           completed == IF success THEN out.completed \cup {ticker} ELSE out.completed
           failed == IF ~success /\ ticker \notin FailedTickers(out.failed)
                     THEN Append(out.failed, [ticker |-> ticker, error |-> NoData])
                     ELSE out.failed
       IN  /\ success \/ ticker \in Flaky
           /\ out' = [out EXCEPT !.completed = completed, !.failed = failed]
           /\ log' = Append(log, [ticker |-> ticker, success |-> success])
           /\ updated_files' = IF success THEN updated_files \cup {ticker}
                               ELSE updated_files
           /\ disk' = IF (idx + 1) % SaveEvery = 0
                      THEN [completed |-> completed, failed |-> failed]
                      ELSE disk
    /\ idx' = idx + 1
    /\ UNCHANGED <<df, disk0, now, csv_files, cutoff_date, deleted_files, error_files,
                   deleted_list, pc>>

\* the save after the loop
FinishRun ==
    /\ pc = "loop"
    /\ idx = Len(csv_files)
    /\ disk' = [completed |-> out.completed, failed |-> out.failed]
    /\ pc' = "done"
    /\ UNCHANGED <<df, out, disk0, now, csv_files, cutoff_date, idx, deleted_files,
                   updated_files, error_files, log, deleted_list>>

\* the process is stopped inside the loop; the file stays as last saved
Interrupt ==
    /\ pc = "loop"
    /\ idx < Len(csv_files)
    /\ pc' = "interrupted"
    /\ out' = NoResult
    /\ UNCHANGED <<df, disk, disk0, now, csv_files, cutoff_date, idx, deleted_files,
                   updated_files, error_files, log, deleted_list>>

DownloadNext ==
    \/ \E tickers \in TickerLists : StartRun(tickers)
    \/ \E success \in BOOLEAN : DownloadOne(success)
    \/ FinishRun
    \/ Interrupt

SpecDownload == DownloadInit /\ [][DownloadNext]_vars

\* ------------------------------------------------------- the retry helper
\* _retry_yf_call of ticker_info.py.  df holds the keyword arguments, out the
\* helper's attempt counter and how it ended, log the calls made and the
\* waits taken, in order.
MaxAttemptsArg == 5             \* the largest max_attempts passed
max_attempts_default == 5
backoff_default == 10
Backoffs == {1, 3, backoff_default}
\* what one call of func does: a result, YFRateLimitError, any other exception
CallOutcomes == {"result", "YFRateLimitError", "Exception"}

ExhaustedLate(attempt, max_attempts) == attempt > max_attempts
Exhausted(attempt, max_attempts) == attempt >= max_attempts
wait_seconds(backoff, attempt) == backoff * (2 ^ (attempt - 1))

RetryInit ==
    /\ df \in {[max_attempts |-> m, backoff |-> b] : m \in 1..MaxAttemptsArg, b \in Backoffs}
    /\ out = [status |-> "running", attempt |-> 1, value |-> 0]
    /\ now = 0 /\ disk = <<>> /\ disk0 = <<>> /\ csv_files = <<>>
    /\ cutoff_date = 0 /\ idx = 0
    /\ deleted_files = <<>> /\ updated_files = <<>> /\ error_files = <<>>
    /\ log = <<>> /\ deleted_list = <<>> /\ pc = "idle"

\* one pass of the while loop; the value of the k-th call is k
Attempt(outcome) ==
    /\ out.status = "running"
    /\ LET call == [kind |-> "call", n |-> out.attempt, outcome |-> outcome]
           wait == [kind |-> "sleep", n |-> wait_seconds(df.backoff, out.attempt),
                    outcome |-> "slept"]
       IN  IF outcome = "result"
           THEN /\ out' = [out EXCEPT !.status = "returned", !.value = out.attempt]
                /\ log' = Append(log, call)
           ELSE IF outcome = "Exception"
           THEN /\ out' = [out EXCEPT !.status = "raised Exception"]
                /\ log' = Append(log, call)
           ELSE IF Exhausted(out.attempt, df.max_attempts)
           THEN /\ out' = [out EXCEPT !.status = "raised YFRateLimitError"]
                /\ log' = Append(log, call)
           ELSE /\ out' = [out EXCEPT !.attempt = @ + 1]
                /\ log' = Append(Append(log, call), wait)
    /\ UNCHANGED <<df, now, disk, disk0, csv_files, cutoff_date, idx, deleted_files,
                   updated_files, error_files, deleted_list, pc>>

RetryNext == \E outcome \in CallOutcomes : Attempt(outcome)

SpecRetry == RetryInit /\ [][RetryNext]_vars
\* every call of func comes back, so a running helper takes its next pass
FairSpecRetry == SpecRetry /\ WF_vars(RetryNext)

\* ---------------------------------------------------------------- the sweep
RetentionDays == 180
TicksPerDay == 2      \* resolution of the clock; file dates are whole days

FileNames == {"T" \o ToString(k) \o ".csv" : k \in 1..MaxFiles}

OneBar == [open |-> 2, high |-> 3, low |-> 2, close |-> 2, volume |-> 2]

\* A price file: its header, whether its date column parses, the day of its
\* most recent row and its rows.  Day 1 is the day of the cutoff.
FileKinds ==
    { [cols |-> StdCols,      date_ok |-> TRUE,  latest |-> 2, rows |-> <<OneBar>>],
      [cols |-> StdCols,      date_ok |-> TRUE,  latest |-> 1, rows |-> <<OneBar>>],
      [cols |-> StdCols,      date_ok |-> TRUE,  latest |-> 0, rows |-> <<OneBar>>],
      [cols |-> StdCols,      date_ok |-> FALSE, latest |-> 2, rows |-> <<OneBar>>],
      [cols |-> StdCols,      date_ok |-> TRUE,  latest |-> 2, rows |-> <<>>],
      [cols |-> NoDateCols,   date_ok |-> TRUE,  latest |-> 0, rows |-> <<OneBar>>],
      [cols |-> NoVolumeCols, date_ok |-> TRUE,  latest |-> 2, rows |-> <<OneBar>>],
      [cols |-> NoVolumeCols, date_ok |-> TRUE,  latest |-> 0, rows |-> <<OneBar>>],
      [cols |-> CasedCols,    date_ok |-> TRUE,  latest |-> 2, rows |-> <<OneBar>>] }

\* pd.read_csv renames a repeated header name x to x.1, x.2, ...
Mangle(cols) ==
    [k \in 1..Len(cols) |->
        LET c == Cardinality({j \in 1..(k - 1) : cols[j] = cols[k]})
        IN  IF c = 0 THEN cols[k] ELSE cols[k] \o "." \o ToString(c)]

read_csv(content) == [cols |-> Mangle(content.cols), rows |-> content.rows]

\* df['date'].max() in ticks; NaT for a frame without rows
HasLatest(content) == content.rows # <<>>
LatestDate(content) == content.latest * TicksPerDay

\* latest_date < cutoff_date (NaT compares false)
IsStaleInclusive(content, cutoff) == HasLatest(content) /\ LatestDate(content) <= cutoff
IsStale(content, cutoff) == HasLatest(content) /\ LatestDate(content) < cutoff

\* The try block of process_single_file: what it returns (status, message)
\* and what the file is afterwards.  Status "raise" stands for an exception
\* leaving the block (pd.to_datetime, the engine).  A file is modelled by its
\* header and price rows, so of the engine's result only the outcome and the
\* columns reach the file.
process_body_columns_first(content, cutoff) ==
    LET frame == read_csv(content)
        missing_cols == MissingCols(frame.cols)
        res == engine_outcome(frame)
    IN  IF "date" \notin SeqToSet(frame.cols)
        THEN [status |-> "error", message |-> [text |-> "missing_date_column"], file |-> content]
        ELSE IF ~content.date_ok
        THEN [status |-> "raise", message |-> [text |-> "to_datetime_failed"], file |-> content]
        ELSE IF missing_cols # <<>>
        THEN [status |-> "error",
              message |-> [text |-> "missing_columns", cols |-> missing_cols],
              file |-> content]
        ELSE IF IsStale(content, cutoff)
        THEN [status |-> "deleted",
              message |-> [text |-> "latest_data", date |-> content.latest],
              file |-> Absent]
        ELSE IF res.status = "raise"
        THEN [status |-> "raise", message |-> res.message, file |-> content]
        ELSE [status |-> "updated",
              message |-> [text |-> "added_n_columns", n |-> Len(res.cols)],
              file |-> [content EXCEPT !.cols = res.cols]]
process_body(content, cutoff) ==
    LET frame == read_csv(content)
        missing_cols == MissingCols(frame.cols)
        res == engine_outcome(frame)
    IN  IF "date" \notin SeqToSet(frame.cols)
        THEN [status |-> "error", message |-> [text |-> "missing_date_column"], file |-> content]
        ELSE IF ~content.date_ok
        THEN [status |-> "raise", message |-> [text |-> "to_datetime_failed"], file |-> content]
        ELSE IF IsStale(content, cutoff)
        THEN [status |-> "deleted",
              message |-> [text |-> "latest_data", date |-> content.latest],
              file |-> Absent]
        ELSE IF missing_cols # <<>>
        THEN [status |-> "error",
              message |-> [text |-> "missing_columns", cols |-> missing_cols],
              file |-> content]
        ELSE IF res.status = "raise"
        THEN [status |-> "raise", message |-> res.message, file |-> content]
        ELSE [status |-> "updated",
              message |-> [text |-> "added_n_columns", n |-> Len(res.cols)],
              file |-> [content EXCEPT !.cols = res.cols]]

\* except Exception as e: return 'error', str(e)
except_reraise(r) == r
except_cleanup(r) == [status |-> "error", message |-> r.message, file |-> Absent]
except_Exception(r) == [status |-> "error", message |-> r.message, file |-> r.file]

process_single_file_drifting(content, cutoff) ==
    LET r == process_body(content, cutoff + idx - 1)
    IN  IF r.status = "raise" THEN except_Exception(r) ELSE r
process_single_file(content, cutoff) ==
    LET r == process_body(content, cutoff)
    IN  IF r.status = "raise" THEN except_Exception(r) ELSE r

\* the list of main that takes a file of the given status
ListForForgetsDeleted(status) ==
    IF status = "deleted" THEN "none" ELSE IF status = "updated" THEN "updated" ELSE "error"
ListFor(status) ==
    IF status = "deleted" THEN "deleted" ELSE IF status = "updated" THEN "updated" ELSE "error"

Present(d) == {f \in DOMAIN d : d[f] # Absent}

\* every order in which glob may list a set of files
Listings(S) == {q \in [1..Cardinality(S) -> S] : \A a, b \in DOMAIN q : a # b => q[a] # q[b]}

Init ==
    /\ df = [cols |-> StdCols, rows |-> <<>>]
    /\ out = NoResult
    /\ now \in {(RetentionDays + 1) * TicksPerDay + f : f \in 0..(TicksPerDay - 1)}
    /\ disk \in [FileNames -> FileKinds \cup {Absent}]
    /\ disk0 = disk
    /\ csv_files = <<>>
    /\ cutoff_date = 0
    /\ idx = 0
    /\ deleted_files = <<>> /\ updated_files = <<>> /\ error_files = <<>>
    /\ log = <<>>
    /\ deleted_list = <<>>
    /\ pc = "start"

\* main, up to the loop: no CSV file -> return; else list them and fix the cutoff
MainNoFiles ==
    /\ pc = "start"
    /\ Present(disk) = {}
    /\ pc' = "nofiles"
    /\ UNCHANGED <<df, out, now, disk, disk0, csv_files, cutoff_date, idx, deleted_files,
                   updated_files, error_files, log, deleted_list>>

MainStart ==
    /\ pc = "start"
    /\ Present(disk) # {}
    /\ csv_files' \in Listings(Present(disk))
    /\ cutoff_date' = now - RetentionDays * TicksPerDay
    /\ idx' = 1
    /\ pc' = "loop"
    /\ UNCHANGED <<df, out, now, disk, disk0, deleted_files, updated_files, error_files,
                   log, deleted_list>>

\* one pass of the loop: process csv_files[idx] and file the result; main has
\* no handler of its own, an exception out of process_single_file ends it
ProcessFile ==
    /\ pc = "loop"
    /\ idx <= Len(csv_files)
    /\ \E filename \in {csv_files[idx]} :
       \E r \in {process_single_file(disk[filename], cutoff_date)} :
           /\ disk' = [disk EXCEPT ![filename] = r.file]
           /\ IF r.status = "raise"
              THEN /\ pc' = "aborted"
                   /\ UNCHANGED <<deleted_files, updated_files, error_files, log, idx>>
              ELSE /\ deleted_files' = IF ListFor(r.status) = "deleted"
                                       THEN Append(deleted_files, filename) ELSE deleted_files
                   /\ updated_files' = IF ListFor(r.status) = "updated"
                                       THEN Append(updated_files, filename) ELSE updated_files
                   /\ error_files' = IF ListFor(r.status) = "error"
                                     THEN Append(error_files, <<filename, r.message>>)
                                     ELSE error_files
                   /\ log' = Append(log, [file |-> filename, status |-> r.status,
                                          message |-> r.message])
                   /\ idx' = idx + 1
                   /\ UNCHANGED pc
    /\ UNCHANGED <<df, out, now, disk0, csv_files, cutoff_date, deleted_list>>

\* after the loop: the summary, and deleted_files.txt when something was deleted
Finish ==
    /\ pc = "loop"
    /\ idx > Len(csv_files)
    /\ deleted_list' = IF deleted_files # <<>> THEN deleted_files ELSE deleted_list
    /\ pc' = "done"
    /\ UNCHANGED <<df, out, now, disk, disk0, csv_files, cutoff_date, idx, deleted_files,
                   updated_files, error_files, log>>

Next == MainNoFiles \/ MainStart \/ ProcessFile \/ Finish

Spec == Init /\ [][Next]_vars

\* the script runs to its end: it is a single sequential process
FairSpec == Spec /\ WF_vars(Next)

\* ------------------------------------------------------ the sweep, run again
\* The script is started again on a later day over the directory the run
\* before left behind.
MaxSweeps == 2        \* runs of the script over one directory

SweepsStarted == now \div TicksPerDay - RetentionDays

RunAgain ==
    /\ pc = "done"
    /\ SweepsStarted < MaxSweeps
    /\ now' = now + TicksPerDay
    /\ disk0' = disk
    /\ csv_files' = <<>> /\ cutoff_date' = 0 /\ idx' = 0
    /\ deleted_files' = <<>> /\ updated_files' = <<>> /\ error_files' = <<>>
    /\ log' = <<>>
    /\ pc' = "start"
    /\ UNCHANGED <<df, out, disk, deleted_list>>

ResweepNext == Next \/ RunAgain

SpecResweep == Init /\ [][ResweepNext]_vars

\* =================================================================== claims
\* Claims about the engine are checked under SpecEngine, claims about the
\* sweep under Spec (FairSpec for progress).

Truncate(frame, t) == [frame EXCEPT !.rows = SubSeq(@, 1, t)]
Rows == Len(df.rows)
CloseAt(t) == df.rows[t].close
VolumeAt(t) == df.rows[t].volume
Computed == out.status = "ok"
RowOf(ind, t) == [name \in ModelledNames |-> ind[name][t]]

C9_OBVRecurrence ==
    Computed =>
        LET obv == out.indicators["obv"]
        IN  /\ Len(obv) = Rows
            /\ obv[1] = <<0, 1>>
            /\ \A t \in 2..Rows :
                /\ obv[t][2] = 1
                /\ obv[t][1] = IF CloseAt(t) > CloseAt(t - 1) THEN obv[t - 1][1] + VolumeAt(t)
                               ELSE IF CloseAt(t) < CloseAt(t - 1) THEN obv[t - 1][1] - VolumeAt(t)
                               ELSE obv[t - 1][1]
            /\ ( /\ \A t \in 2..Rows : CloseAt(t) > CloseAt(t - 1)
                 /\ \A t \in 1..Rows : VolumeAt(t) = VolumeAt(1) )
               => obv[Rows][1] = (Rows - 1) * VolumeAt(1)
            /\ OBVVectorized(Column(df, "close"), Column(df, "volume")) = obv

\* a frame with a rising, a falling and a flat step, each on a row with volume
C9_Witness ==
    /\ Computed
    /\ \E t \in 2..Rows : CloseAt(t) > CloseAt(t - 1) /\ VolumeAt(t) > 0
    /\ \E t \in 2..Rows : CloseAt(t) < CloseAt(t - 1) /\ VolumeAt(t) > 0
    /\ \E t \in 2..Rows : CloseAt(t) = CloseAt(t - 1) /\ VolumeAt(t) > 0
    /\ out.indicators["obv"][Rows][1] < 0

\* C10 -- EMA: for every span, ema[0] = close[0] and for t >= 1
\* ema[t] = a * close[t] + (1 - a) * ema[t-1] with a = 2 / (span + 1), exactly;
\* the ema_<span> column is that series (rounded to 2 decimals by the engine)
\* and is defined on every row, the first included.
C10_EMARecursive ==
    Computed =>
        \A span \in ModelledEmaPeriods :
            LET ema == calculate_ema(Column(df, "close"), span)
                a == Norm(2, span + 1)
                col == out.indicators[EmaName(span)]
            IN  /\ Len(ema) = Rows /\ Len(col) = Rows
                /\ ema[1] = <<CloseAt(1), 1>>
                /\ \A t \in 2..Rows :
                      ema[t] = Add(Mul(a, <<CloseAt(t), 1>>), Mul(Sub(<<1, 1>>, a), ema[t - 1]))
                /\ \A t \in 1..Rows : col[t][2] > 0 /\ col[t] = Round2(ema[t])

\* three or more rows with moving closes: the span-3 EMA is off the closes
C10_Witness ==
    /\ Computed
    /\ Rows >= 3
    /\ CloseAt(1) # CloseAt(2) /\ CloseAt(2) # CloseAt(3)
    /\ out.indicators["ema_3"][3][2] > 1
    /\ out.indicators["ema_12"][Rows] # out.indicators["ema_3"][Rows]

\* ------------------------------------------ further claims on the engine
HighAt(t) == df.rows[t].high
LowAt(t) == df.rows[t].low

RECURSIVE CloseSum(_, _)
CloseSum(lo, hi) == IF lo > hi THEN 0 ELSE CloseSum(lo, hi - 1) + CloseAt(hi)

\* C11 -- SMA correctness and warm-up: for every window w and every row
\* t >= w-1 (0-based) sma_w[t] is the arithmetic mean of the trailing w closes
\* close[t-w+1 .. t], the current row included (the column holds it rounded
\* to 2 decimals); on every earlier row the value is undefined, not zero and
\* not filled from later rows.
C11_SMAWarmup ==
    Computed =>
        \A w \in SeqToSet(SmaPeriods) :
            LET col == out.indicators[SmaName(w)]
                sma == calculate_sma(Column(df, "close"), w)
            IN  /\ Len(col) = Rows /\ Len(sma) = Rows
                /\ \A t \in 1..Rows :
                      IF t >= w
                      THEN /\ sma[t] = Frac(CloseSum(t - w + 1, t), w)
                           /\ col[t] = Round2(Frac(CloseSum(t - w + 1, t), w))
                      ELSE sma[t] = NaN /\ col[t] = NaN

\* six rows: rows 1..4 of sma_5 undefined, rows 5 and 6 two different means,
\* the first of them not a whole number
C11_Witness ==
    /\ Computed
    /\ Rows >= 6
    /\ out.indicators["sma_5"][4] = NaN
    /\ out.indicators["sma_5"][5][2] > 1
    /\ out.indicators["sma_5"][6] # out.indicators["sma_5"][5]
    /\ CloseAt(6) # CloseAt(1)

\* C12 -- Pivot points use only the previous bar: at row t >= 1 (0-based)
\* pivot = (high[t-1] + low[t-1] + close[t-1]) / 3, r1 = 2*pivot - low[t-1],
\* r2 = pivot + (high[t-1] - low[t-1]), s1 = 2*pivot - high[t-1],
\* s2 = pivot - (high[t-1] - low[t-1]) (each rounded to 2 decimals); at row 0
\* all five are undefined.
C12_PivotPrevBar ==
    Computed =>
        /\ \A name \in {"pivot", "r1", "r2", "s1", "s2"} :
              Len(out.indicators[name]) = Rows /\ out.indicators[name][1] = NaN
        /\ \A t \in 2..Rows :
              LET h == HighAt(t - 1)
                  l == LowAt(t - 1)
                  c == CloseAt(t - 1)
              IN  /\ out.indicators["pivot"][t] = Round2(Frac(h + l + c, 3))
                  /\ out.indicators["r1"][t] = Round2(Frac(2 * h - l + 2 * c, 3))
                  /\ out.indicators["r2"][t] = Round2(Frac(4 * h - 2 * l + c, 3))
                  /\ out.indicators["s1"][t] = Round2(Frac(2 * l - h + 2 * c, 3))
                  /\ out.indicators["s2"][t] = Round2(Frac(4 * l - 2 * h + c, 3))

\* a row whose bar differs from the bar before it in high, low and close,
\* with a pivot that needs rounding
C12_Witness ==
    /\ Computed
    /\ \E t \in 2..Rows :
          /\ HighAt(t) # HighAt(t - 1) /\ LowAt(t) # LowAt(t - 1) /\ CloseAt(t) # CloseAt(t - 1)
          /\ out.indicators["pivot"][t][2] = 100
          /\ out.indicators["s2"][t] # out.indicators["s1"][t]

\* C13 -- RSI bounds: whatever the close series and the period, every defined
\* value of the RSI lies in [0, 100], before and after the rounding to 2
\* decimals of the rsi_<period> column.
C13_RSIBounds ==
    out.status = "rsi" =>
        /\ Len(out.rsi) = Rows
        /\ \A t \in 1..Rows :
              \/ out.rsi[t] = NaN
              \/ /\ out.rsi[t][2] > 0
                 /\ 0 <= out.rsi[t][1] /\ out.rsi[t][1] <= 100 * out.rsi[t][2]
                 /\ 0 <= Round2(out.rsi[t])[1]
                 /\ Round2(out.rsi[t])[1] <= 100 * Round2(out.rsi[t])[2]

\* period 9 on a series with gains and losses in one window: two defined
\* values, one of them strictly inside the range and in need of rounding
C13_Witness ==
    /\ out.status = "rsi"
    /\ out.period = 9
    /\ \E t \in 1..Rows :
          /\ out.rsi[t][2] > 1
          /\ Round2(out.rsi[t]) # out.rsi[t]
    /\ out.rsi[Rows] # out.rsi[Rows - 1]
    /\ out.rsi[Rows - 1] # NaN

StrictlyRising == \A t \in 2..Rows : CloseAt(t) > CloseAt(t - 1)

\* C14 -- RSI saturation: on a strictly increasing close series longer than
\* the period the RSI is 100 on every row after warm-up (rows period-1 and
\* later, 0-based) and undefined on the warm-up rows.
C14_RSISaturates ==
    (out.status = "rsi" /\ StrictlyRising /\ Rows > out.period) =>
        \A t \in 1..Rows :
            out.rsi[t] = IF t >= out.period THEN R(100) ELSE NaN

\* a rising series of more than 9 closes under period 9
C14_Witness ==
    /\ out.status = "rsi"
    /\ out.period = 9
    /\ Rows > 9
    /\ StrictlyRising
    /\ out.rsi[Rows] = R(100)
    /\ out.rsi[8] = NaN

\* ------------------------------------------------------- claims on the sweep
\* What the claims say about a file, stated on the file as it was when main
\* started, independently of the operators above.
ReqOrder == <<"open", "high", "low", "close", "volume">>
Lacking(cols) == {c \in SeqToSet(ReqOrder) : \A k \in 1..Len(cols) : cols[k] # c}
FirstLacking(cols) ==
    ReqOrder[CHOOSE k \in 1..Len(ReqOrder) :
                /\ ReqOrder[k] \in Lacking(cols)
                /\ \A j \in 1..(k - 1) : ReqOrder[j] \notin Lacking(cols)]
CanonComplete(cols) ==
    \A c \in SeqToSet(ReqOrder) : \E k \in 1..Len(cols) : NormalizeName(cols[k]) = c
DateUsable(c) == (\E k \in 1..Len(c.cols) : c.cols[k] = "date") /\ c.date_ok
OlderThanCutoff(c) ==
    /\ DateUsable(c)
    /\ c.rows # <<>>
    /\ c.latest * TicksPerDay < now - 180 * TicksPerDay
Entries == 1..Len(log)
Before(k) == disk0[log[k].file]
After(k) == disk[log[k].file]
EngineOn(c) == calculate_all_indicators([cols |-> c.cols, rows |-> c.rows])
Occ(q, f) == Cardinality({k \in 1..Len(q) : q[k] = f})
OccErr(f) == Cardinality({k \in 1..Len(error_files) : error_files[k][1] = f})

\* C2 (as claimed) -- a file lacking an OHLCV column always gets status error
\* in the sweep and is left as it was.
C2_Original ==
    \A k \in Entries :
        Lacking(Before(k).cols) # {} => log[k].status = "error" /\ After(k) = Before(k)

\* C2 (amended) -- on a frame lacking an OHLCV column the engine raises an
\* error naming the first missing column and returns no frame; in the sweep
\* such a file is never rewritten: it gets status error (the message listing
\* the missing columns when its dates parse), unless its latest date is older
\* than the cutoff, in which case it is deleted.
C2_MissingColumnRejected ==
    \A k \in Entries :
        Lacking(Before(k).cols) # {} =>
            /\ EngineOn(Before(k)).status = "raise"
            /\ EngineOn(Before(k)).message.cols = <<FirstLacking(Before(k).cols)>>
            /\ DOMAIN EngineOn(Before(k)) \cap {"cols", "rows", "indicators"} = {}
            /\ IF OlderThanCutoff(Before(k))
               THEN log[k].status = "deleted" /\ After(k) = Absent
               ELSE /\ log[k].status = "error"
                    /\ After(k) = Before(k)
                    /\ DateUsable(Before(k)) =>
                          /\ log[k].message.text = "missing_columns"
                          /\ SeqToSet(log[k].message.cols) = Lacking(Before(k).cols)

\* one sweep met a fresh and a stale file that both lack volume
C2_Witness ==
    /\ \E k \in Entries : /\ "volume" \in Lacking(Before(k).cols)
                          /\ log[k].status = "error"
                          /\ log[k].message.text = "missing_columns"
    /\ \E k \in Entries : "volume" \in Lacking(Before(k).cols) /\ log[k].status = "deleted"

\* C3 (as claimed) -- a file whose OHLCV names differ from the required ones
\* only in case or surrounding whitespace is accepted and never reported as
\* missing a column.
C3_Original ==
    \A k \in Entries :
        CanonComplete(Before(k).cols) =>
            ~(log[k].status = "error" /\ log[k].message.text = "missing_columns")

\* C3 (amended) -- required-column matching is exact: a name that differs
\* from a required one in case or surrounding whitespace ('Close',
\* ' volume ') does not count, so the engine raises naming the first such
\* column and the sweep reports the file (fresh, dates parsing) with status
\* error listing these columns and leaves it as it was.
C3_ExactMatch ==
    \A k \in Entries :
        (CanonComplete(Before(k).cols) /\ Lacking(Before(k).cols) # {}) =>
            /\ EngineOn(Before(k)).status = "raise"
            /\ EngineOn(Before(k)).message =
                  [text |-> "missing_required_column", cols |-> <<FirstLacking(Before(k).cols)>>]
            /\ (DateUsable(Before(k)) /\ ~OlderThanCutoff(Before(k))) =>
                  /\ log[k].status = "error"
                  /\ log[k].message.text = "missing_columns"
                  /\ SeqToSet(log[k].message.cols) = Lacking(Before(k).cols)
                  /\ After(k) = Before(k)

\* the sweep met a file with the columns 'Close' and ' volume '
C3_Witness ==
    \E k \in Entries :
        /\ CanonComplete(Before(k).cols)
        /\ Lacking(Before(k).cols) = {"close", "volume"}
        /\ log[k].status = "error"

\* C4 -- Retention: a processed file is deleted exactly when its most recent
\* date is older than the cutoff = now - 180 days; a file at or after the
\* cutoff is kept, and with the OHLCV columns it is rewritten with the
\* indicator columns appended.  Files not yet processed are untouched.
C4_Retention ==
    /\ pc \in {"loop", "done"} => cutoff_date = now - 180 * TicksPerDay
    /\ \A k \in Entries :
        /\ (After(k) = Absent) <=> OlderThanCutoff(Before(k))
        /\ (log[k].status = "deleted") <=> OlderThanCutoff(Before(k))
        /\ ( /\ DateUsable(Before(k)) /\ Before(k).rows # <<>>
             /\ ~OlderThanCutoff(Before(k))
             /\ Lacking(Before(k).cols) = {} )
           => /\ log[k].status = "updated"
              /\ After(k) = [Before(k) EXCEPT !.cols = Before(k).cols \o IndicatorNames]
    /\ \A f \in DOMAIN disk : (\A k \in Entries : log[k].file # f) => disk[f] = disk0[f]

\* one sweep deleted a file and rewrote another whose latest date is exactly
\* the cutoff
C4_Witness ==
    /\ \E k \in Entries : log[k].status = "deleted" /\ After(k) = Absent
    /\ \E k \in Entries : /\ log[k].status = "updated"
                          /\ Before(k).latest * TicksPerDay = cutoff_date
                          /\ Len(After(k).cols) > Len(Before(k).cols)

\* C5 -- Summary partition: every processed file is in exactly one of the
\* three lists, so at the end updated + deleted + errored = files found; the
\* deleted list holds exactly the files removed; every error entry carries
\* the file name and a reason.
C5_Partition ==
    pc \in {"loop", "done"} =>
        /\ \A k \in 1..Len(csv_files) :
              Occ(updated_files, csv_files[k]) + Occ(deleted_files, csv_files[k])
                + OccErr(csv_files[k]) = (IF k < idx THEN 1 ELSE 0)
        /\ Len(updated_files) + Len(deleted_files) + Len(error_files) = idx - 1
        /\ pc = "done" =>
              /\ Len(csv_files) = Cardinality({f \in DOMAIN disk0 : disk0[f] # Absent})
              /\ Len(updated_files) + Len(deleted_files) + Len(error_files) = Len(csv_files)
        /\ SeqToSet(deleted_files) = {f \in DOMAIN disk0 : disk0[f] # Absent /\ disk[f] = Absent}
        /\ \A k \in 1..Len(error_files) :
              /\ error_files[k][1] \in SeqToSet(csv_files)
              /\ error_files[k][2].text \in {"missing_date_column", "to_datetime_failed",
                                             "missing_columns", "index_out_of_bounds"}

\* a finished sweep over two files, one deleted and one in error
C5_Witness ==
    /\ pc = "done"
    /\ Len(csv_files) >= 2
    /\ deleted_files # <<>>
    /\ error_files # <<>>

\* the ways a file can fail
FailsToProcess(c) ==
    \/ ~DateUsable(c)
    \/ ~OlderThanCutoff(c) /\ (Lacking(c.cols) # {} \/ c.rows = <<>>)

\* C6 -- A per-file failure never aborts the sweep: each failing file gets
\* status error with a message, main never stops early, and a sweep in its
\* loop always reaches the summary with every listed file processed in order.
C6_NeverAborts ==
    /\ [](pc # "aborted")
    /\ [](\A k \in Entries :
             FailsToProcess(Before(k)) =>
                 log[k].status = "error" /\ "text" \in DOMAIN log[k].message)
    /\ ((pc = "loop") ~>
            (/\ pc = "done"
             /\ Len(log) = Len(csv_files)
             /\ \A k \in Entries : log[k].file = csv_files[k]))

\* the first file made the engine raise and the second was still processed
C6_Witness ==
    /\ pc = "done"
    /\ Len(log) >= 2
    /\ log[1].status = "error"
    /\ log[1].message.text = "index_out_of_bounds"
    /\ log[2].status = "updated"

\* C7 -- State unchanged on error: a file that got status error still exists
\* with exactly the content it had before the sweep.
C7_ErrorLeavesFile ==
    \A k \in Entries :
        log[k].status = "error" => After(k) # Absent /\ After(k) = Before(k)

\* errors from an exception in the engine and from an unparsable date
C7_Witness ==
    /\ \E k \in Entries : log[k].status = "error" /\ log[k].message.text = "index_out_of_bounds"
    /\ \E k \in Entries : log[k].status = "error" /\ log[k].message.text = "to_datetime_failed"

\* C8 (as claimed) -- for an updated file the recorded figure is the number of
\* columns added: columns of the rewritten file minus columns of the file read.
C8_AddedColumnCount ==
    \A k \in Entries :
        log[k].status = "updated" =>
            log[k].message.n = Len(After(k).cols) - Len(Before(k).cols)

\* ------------------------------------------------- the zero-denominator cells
Flat(t) == HighAt(t) = LowAt(t)
WinHigh(t, w) ==
    CHOOSE m \in {HighAt(k) : k \in (t - w + 1)..t} : \A k \in (t - w + 1)..t : HighAt(k) <= m
WinLow(t, w) ==
    CHOOSE m \in {LowAt(k) : k \in (t - w + 1)..t} : \A k \in (t - w + 1)..t : LowAt(k) >= m
\* three times the typical price, and three times the money flow
TpSum(t) == HighAt(t) + LowAt(t) + CloseAt(t)
Flow(t) == TpSum(t) * VolumeAt(t)
RECURSIVE PosFlow(_, _)
PosFlow(lo, hi) ==
    IF lo > hi THEN 0
    ELSE PosFlow(lo, hi - 1) + (IF hi > 1 /\ TpSum(hi) > TpSum(hi - 1) THEN Flow(hi) ELSE 0)
RECURSIVE NegFlow(_, _)
NegFlow(lo, hi) ==
    IF lo > hi THEN 0
    ELSE NegFlow(lo, hi - 1) + (IF hi > 1 /\ TpSum(hi) < TpSum(hi - 1) THEN Flow(hi) ELSE 0)
RECURSIVE Gains(_, _)
Gains(lo, hi) ==
    IF lo > hi THEN 0
    ELSE Gains(lo, hi - 1) + (IF hi > 1 /\ CloseAt(hi) > CloseAt(hi - 1)
                              THEN CloseAt(hi) - CloseAt(hi - 1) ELSE 0)
RECURSIVE Losses(_, _)
Losses(lo, hi) ==
    IF lo > hi THEN 0
    ELSE Losses(lo, hi - 1) + (IF hi > 1 /\ CloseAt(hi) < CloseAt(hi - 1)
                               THEN CloseAt(hi - 1) - CloseAt(hi) ELSE 0)
\* the money flow volume of a bar with a range, and its running sum over
\* the bars that have one
Mfv(t) == Frac((2 * CloseAt(t) - HighAt(t) - LowAt(t)) * VolumeAt(t), HighAt(t) - LowAt(t))
RECURSIVE MfvSum(_)
MfvSum(t) == IF t = 0 THEN <<0, 1>> ELSE IF Flat(t) THEN MfvSum(t - 1) ELSE Add(MfvSum(t - 1), Mfv(t))

\* 100 * a / (a + b) with a zero b: the ceiling 100 when a > 0, undefined when a = 0
Saturating(a, b) ==
    IF b = 0 THEN (IF a > 0 THEN <<100, 1>> ELSE NaN) ELSE Round2(Frac(100 * a, a + b))

EngineRaised ==
    out.status = "raise" /\ out.message.text \in {"missing_required_column", "index_out_of_bounds"}

WindowOf ==
    [name \in SmaNames |-> SmaPeriodOf[name]] @@ [name \in RsiNames |-> RsiPeriodOf[name]]
    @@ [willr_14 |-> 14, willr_21 |-> 21, stoch_k_9 |-> 9, stoch_d_9 |-> 11, stoch_j_9 |-> 11,
        stoch_k_14 |-> 14, stoch_d_14 |-> 16, stoch_j_14 |-> 16, atr_7 |-> 7, atr_14 |-> 14,
        atr_21 |-> 21, kc_upper |-> 14, kc_lower |-> 14, mfi |-> 14]
SpanOf == [name \in EmaNames |-> EmaPeriodOf[name]] @@ [kc_middle |-> 20]

AllUndefined(col) == \A t \in 1..Len(col) : col[t] = NaN
AllDefined(col) == \A t \in 1..Len(col) : col[t][2] > 0

C17_RowPreservation ==
    Computed =>
        /\ out.rows = df.rows
        /\ DOMAIN out.indicators = ModelledNames
        /\ \A name \in DOMAIN out.indicators :
              /\ DOMAIN out.indicators[name] = 1..Rows
              /\ \A t \in 1..Rows : out.indicators[name][t][2] >= 0

\* six rows with a flat step: obv and sar have six values, and the warm-up
\* rows of sma_5 and pivot are there, undefined
C17_Witness ==
    /\ Computed
    /\ Rows = 6
    /\ \E t \in 2..Rows : CloseAt(t) = CloseAt(t - 1)
    /\ Len(out.indicators["obv"]) = 6
    /\ Len(out.indicators["sar"]) = 6
    /\ out.indicators["sma_5"][4] = NaN
    /\ out.indicators["sma_5"][5] # NaN
    /\ out.indicators["pivot"][1] = NaN
    /\ Len(out.rows) = 6

\* C18 -- The engine does not mutate its input: a call of
\* calculate_all_indicators or of add_indicators, whether it returns or
\* raises, leaves the caller's frame with the same columns, rows and values.
\* The engine's result is a separate frame: the original columns first,
\* unchanged and in their order, then the indicator columns, on the same
\* rows.  (add_indicators returns the date column first, which is where the
\* price files have it, then the other original columns, then its own.)
C18_InputUntouched ==
    [][(out' # out /\ out' # NoResult) =>
          /\ df' = df
          /\ out'.status \in {"ok", "added", "raise"}
          /\ out'.status = "ok" =>
                /\ out'.rows = df.rows
                /\ out'.cols = df.cols \o IndicatorNames
                /\ SubSeq(out'.cols, 1, Len(df.cols)) = df.cols
          /\ out'.status = "added" =>
                /\ out'.rows = df.rows
                /\ out'.cols = df.cols \o AddedNames
          /\ out'.status = "raise" => DOMAIN out' \cap {"cols", "rows", "indicators"} = {}
      ]_vars

\* the engine has returned an augmented copy of a frame of several rows
C18_Witness ==
    /\ Computed
    /\ Rows >= 2
    /\ df.cols = StdCols
    /\ Len(out.cols) = Len(df.cols) + Len(IndicatorNames)
    /\ out.rows = df.rows

\* C19 (as claimed) -- Keltner channels: kc_middle is the EMA with span 20 of
\* the typical price (high + low + close) / 3, and kc_upper / kc_lower are
\* kc_middle plus / minus twice the atr_14 of the same run (all rounded to 2
\* decimals).
C19_Keltner ==
    Computed =>
        LET typical_price == [t \in 1..Rows |-> Frac(TpSum(t), 3)]
            basis == calculate_ema(typical_price, 20)
            atr   == ATR(Column(df, "high"), Column(df, "low"), Column(df, "close"), 14)
        IN  \A t \in 1..Rows :
                /\ out.indicators["kc_middle"][t] = Round2(basis[t])
                /\ out.indicators["kc_upper"][t] = Round2(Add(basis[t], Mul(<<2, 1>>, atr[t])))
                /\ out.indicators["kc_lower"][t] = Round2(Sub(basis[t], Mul(<<2, 1>>, atr[t])))

\* ------------------------------------------------------ the sweep, per file
\* C20 -- No cross-ticker state: what the sweep does to a file (status,
\* message, the file afterwards) is a function of that file's content and of
\* the cutoff only: two files with the same content fare the same, wherever
\* they come in the listing and whatever was done to the other file, and a
\* file is touched by its own pass only.
C20_NoCrossTicker ==
    /\ \A k \in Entries :
          LET r == process_single_file(Before(k), cutoff_date)
          IN  /\ log[k].status = r.status
              /\ log[k].message = r.message
              /\ After(k) = r.file
    /\ \A j, k \in Entries :
          Before(j) = Before(k) =>
              /\ log[j].status = log[k].status
              /\ log[j].message = log[k].message
              /\ After(j) = After(k)
    /\ \A f \in DOMAIN disk : (\A k \in Entries : log[k].file # f) => disk[f] = disk0[f]
    /\ \A j, k \in Entries : j # k => log[j].file # log[k].file

\* two files with the same content at the cutoff day: the first was rewritten,
\* then the second was rewritten in the same way
C20_Witness ==
    /\ pc = "done"
    /\ Len(log) = 2
    /\ Before(1) = Before(2)
    /\ Before(1).latest * TicksPerDay = cutoff_date
    /\ log[1].status = "updated" /\ log[2].status = "updated"
    /\ After(1) # Before(1)

\* ----------------------------------------------- claims on the Parabolic SAR
InLoop == out.status = "loop"
SarHigh == Column(df, "high")
SarLow == Column(df, "low")
\* the bar the next pass reads and the bar the last pass read (1-based rows)
NextRow == out.i + 1
LastRow == out.i
\* a pass of the loop is being taken
Pass == InLoop /\ out'.status = "loop"
\* the loop's variables as they were before the last pass
Prev == SARState(SarHigh, SarLow, out.i - 1)
Emitted(st) == st.sar[Len(st.sar)]
Leq(x, y) == ~IsNaN(x) /\ ~IsNaN(y) /\ ~Gt(x, y)

\* C22: before bar 1 the trend is up, the SAR is the first low, the extreme
\* point is the first high and the acceleration factor is 0.02; sar[0] is the
\* first low in every later state and in the emitted column.
C22_SARInitialState ==
    /\ (InLoop /\ out.i = 1) =>
          /\ out.st.uptrend = TRUE
          /\ out.st.sar = <<R(df.rows[1].low)>>
          /\ out.st.ep = R(df.rows[1].high)
          /\ out.st.af_current = <<1, 50>>
    /\ InLoop => out.st.sar[1] = R(df.rows[1].low)
    /\ out.status = "sar" => out.sar[1] = R(df.rows[1].low)

C22_Witness ==
    /\ InLoop /\ out.i = 1
    /\ Len(df.rows) >= 2
    /\ df.rows[1].high # df.rows[1].low

\* the acceleration factor counted in steps of 0.02
AfTicks(st) == CHOOSE k \in 0..11 : st.af_current = Frac(k, 50)
IsAfTick(st) == \E k \in 1..10 : st.af_current = Frac(k, 50)
NewExtreme(st, row) ==
    IF st.uptrend THEN Gt(R(df.rows[row].high), st.ep)
    ELSE Lt(R(df.rows[row].low), st.ep)

\* C23: the acceleration factor is always one of 0.02, 0.04, ..., 0.2; a pass
\* resets it to 0.02 when the trend flips, otherwise raises it by 0.02 (at
\* most to 0.2) when the bar sets a new extreme, otherwise leaves it alone.
C23_AccelerationFactor ==
    /\ [](InLoop => IsAfTick(out.st))
    /\ [][Pass =>
            AfTicks(out'.st) =
                IF out'.st.uptrend # out.st.uptrend THEN 1
                ELSE IF NewExtreme(out.st, NextRow) THEN Min(AfTicks(out.st) + 1, 10)
                ELSE AfTicks(out.st)]_vars

C23_Witness ==
    /\ InLoop /\ out.i >= 3
    /\ out.st.af_current = <<1, 5>>
    /\ Prev.af_current = <<1, 5>>
    /\ NewExtreme(Prev, LastRow)

\* C24: a pass flips the trend exactly when the bar crosses the tentative SAR;
\* a flip emits the extreme point of the trend that ended, restarts the
\* extreme point at the bar's low (after an uptrend) or high (after a
\* downtrend) and resets the acceleration factor; without a cross the trend
\* stays and the tentative SAR is emitted.
C24_FlipTransition ==
    [][Pass =>
        LET st == out.st
            hi == R(df.rows[NextRow].high)
            lo == R(df.rows[NextRow].low)
            tentative == SARTentative(st, SarHigh, SarLow, NextRow)
            cross == IF st.uptrend THEN Lt(lo, tentative) ELSE Gt(hi, tentative)
            ended == IF st.uptrend THEN (IF Gt(hi, st.ep) THEN hi ELSE st.ep)
                     ELSE (IF Lt(lo, st.ep) THEN lo ELSE st.ep)
        IN  /\ (out'.st.uptrend # st.uptrend) <=> cross
            /\ cross =>
                  /\ Emitted(out'.st) = ended
                  /\ out'.st.ep = IF st.uptrend THEN lo ELSE hi
                  /\ out'.st.af_current = <<1, 50>>
            /\ ~cross => Emitted(out'.st) = tentative]_vars

\* a downtrend that lasted more than one bar has just flipped up
C24_Witness ==
    /\ InLoop /\ out.i >= 4
    /\ out.st.uptrend /\ ~Prev.uptrend
    /\ ~SARState(SarHigh, SarLow, out.i - 2).uptrend
    /\ Prev.af_current # <<1, 50>>

\* the series with every row from the given one on replaced by one bar
Overwritten(s, row, v) == [t \in 1..Len(s) |-> IF t >= row THEN R(v) ELSE s[t]]

\* C25: the tentative SAR of a pass entered in an uptrend is at most the lows
\* of the one or two bars before it, that of a pass entered in a downtrend at
\* least their highs, and it does not depend on the bar of the pass or on any
\* later bar.
C25_Clipping ==
    (InLoop /\ out.i < Len(df.rows)) =>
        LET tentative == SARTentative(out.st, SarHigh, SarLow, NextRow)
        IN  /\ out.st.uptrend =>
                  /\ Leq(tentative, SarLow[NextRow - 1])
                  /\ out.i >= 2 => Leq(tentative, SarLow[NextRow - 2])
            /\ ~out.st.uptrend =>
                  /\ Leq(SarHigh[NextRow - 1], tentative)
                  /\ out.i >= 2 => Leq(SarHigh[NextRow - 2], tentative)
            /\ \A b \in SarBars :
                  SARTentative(out.st, Overwritten(SarHigh, NextRow, b.high),
                               Overwritten(SarLow, NextRow, b.low), NextRow) = tentative

\* the low two bars back is the one that holds the tentative SAR down
C25_Witness ==
    /\ InLoop /\ out.i < Len(df.rows) /\ out.i >= 2
    /\ out.st.uptrend
    /\ Lt(SarLow[NextRow - 2], SarLow[NextRow - 1])
    /\ SARTentative(out.st, SarHigh, SarLow, NextRow) = SarLow[NextRow - 2]
    /\ SarLow[NextRow] # SarLow[NextRow - 2]

\* C26: after every bar the SAR is not above the bar's low when the trend is
\* up and not below the bar's high when the trend is down, also on bar 0, on
\* flip bars and on bars whose low is above their high.
C26_NoPenetration ==
    InLoop =>
        /\ out.st.uptrend => Leq(out.st.sar[LastRow], SarLow[LastRow])
        /\ ~out.st.uptrend => Leq(SarHigh[LastRow], out.st.sar[LastRow])

C26_Witness ==
    /\ InLoop /\ out.i >= 2
    /\ df.rows[LastRow].low > df.rows[LastRow].high
    /\ out.st.uptrend # Prev.uptrend
    /\ ~out.st.uptrend

\* the bar of the pass sets a new extreme and crosses the tentative SAR
ExtremeAndCross(st, row) ==
    /\ NewExtreme(st, row)
    /\ IF st.uptrend
       THEN Lt(R(df.rows[row].low), SARTentative(st, SarHigh, SarLow, row))
       ELSE Gt(R(df.rows[row].high), SARTentative(st, SarHigh, SarLow, row))

\* C27: when one bar both sets a new extreme and crosses the tentative SAR,
\* the SAR emitted for it is the bar's own high (uptrend) or low (downtrend),
\* not the extreme point held before the bar.
C27_ExtremeBeforeCross ==
    [][(Pass /\ ExtremeAndCross(out.st, NextRow)) =>
        /\ Emitted(out'.st) = IF out.st.uptrend THEN R(df.rows[NextRow].high)
                              ELSE R(df.rows[NextRow].low)
        /\ Emitted(out'.st) # out.st.ep]_vars

C27_Witness ==
    /\ InLoop /\ out.i >= 2
    /\ ~Prev.uptrend
    /\ ExtremeAndCross(Prev, LastRow)

\* ------------------------------------------------- claims on the downloader
Progress == load_progress(disk)
Progress0 == load_progress(disk0)
Downloaded == [k \in 1..Len(log) |-> log[k].ticker]
Succeeded == {log[k].ticker : k \in {j \in 1..Len(log) : log[j].success}}
Requested == [k \in 1..Len(df) |-> df[k]]
NoTickerTwice(failed) ==
    \A j, k \in 1..Len(failed) : failed[j].ticker = failed[k].ticker => j = k
InRun == pc \in {"loop", "done"}

\* the downloads of a run are the requested tickers that the progress file
\* did not list as completed, in the order requested
DownloadsRemaining ==
    /\ pc = "loop" => Downloaded = SubSeq(Filter(Requested, Progress0.completed), 1, idx)
    /\ pc = "done" => Downloaded = Filter(Requested, Progress0.completed)
FailedOnce ==
    /\ InRun => NoTickerTwice(out.failed)
    /\ NoTickerTwice(Progress.failed)
CompletedGrows ==
    /\ InRun /\ pc' \in {"loop", "done"} /\ now' = now => out.completed \subseteq out'.completed
    /\ Progress.completed \subseteq load_progress(disk').completed

\* C21 as stated: at the normal end of a run the progress file lists every
\* ticker whose download succeeded in this or any earlier run.
C21_Original ==
    /\ [](DownloadsRemaining /\ FailedOnce)
    /\ [][CompletedGrows]_vars
    /\ [](pc = "done" => updated_files \subseteq Progress.completed)

\* C21: a run downloads exactly the requested tickers that the progress file
\* does not list as completed (those listed only as failed are tried again);
\* the completed set only grows, the failed list never holds a ticker twice,
\* and at the normal end of a run the progress file lists every ticker that
\* succeeded in this run or was listed as completed when the run began.
C21_DownloadResume ==
    /\ [](DownloadsRemaining /\ FailedOnce)
    /\ [][CompletedGrows]_vars
    /\ [](pc = "done" => (Progress0.completed \cup Succeeded) \subseteq Progress.completed)

\* a second run skips a completed ticker, tries two failed ones again, one
\* with success and one failing once more
C21_Witness ==
    /\ pc = "done" /\ now = 2
    /\ \E t \in SeqToSet(Requested) : t \in Progress0.completed
    /\ \E t \in FailedTickers(Progress0.failed) : t \in Succeeded
    /\ \E k \in 1..Len(log) :
          ~log[k].success /\ log[k].ticker \in FailedTickers(Progress0.failed)
    /\ Progress0.completed # {} /\ Len(Progress.failed) = 2
    /\ updated_files \subseteq Progress.completed

\* ------------------------------------------------ claims on the retry helper
Calls == SelectSeq(log, LAMBDA ev : ev.kind = "call")
Ended == out.status # "running"
\* the waits are backoff, 2 * backoff, 4 * backoff, ...
RECURSIVE Doubled(_, _)
Doubled(b, k) == IF k <= 1 THEN b ELSE 2 * Doubled(b, k - 1)

\* calls and waits alternate, the k-th call is attempt k, and a wait follows
\* exactly the rate-limited calls before the last allowed attempt
RetryLogShape ==
    \A j \in 1..Len(log) :
        /\ log[j].kind = (IF j % 2 = 1 THEN "call" ELSE "sleep")
        /\ log[j].kind = "call" => log[j].n = (j + 1) \div 2
        /\ log[j].kind = "sleep" =>
              /\ log[j - 1].outcome = "YFRateLimitError"
              /\ log[j - 1].n < df.max_attempts
              /\ log[j].n = Doubled(df.backoff, log[j - 1].n)
        /\ (log[j].kind = "call" /\ j < Len(log)) =>
              /\ log[j].outcome = "YFRateLimitError"
              /\ log[j].n < df.max_attempts

RetryOutcome ==
    LET last == log[Len(log)]
    IN  /\ Len(Calls) <= df.max_attempts
        /\ ~Ended => (log = <<>> \/ last.kind = "sleep")
        /\ Ended => last.kind = "call"
        /\ out.status = "returned" <=> (Ended /\ last.outcome = "result")
        /\ out.status = "returned" => out.value = last.n
        /\ out.status = "raised Exception" <=> (Ended /\ last.outcome = "Exception")
        /\ out.status = "raised YFRateLimitError" <=>
              (Ended /\ last.outcome = "YFRateLimitError" /\ last.n = df.max_attempts)

HasDateColumn(c) == \E k \in 1..Len(c.cols) : c.cols[k] = "date"
InErrors(f) == \E k \in 1..Len(error_files) : error_files[k][1] = f
InDeleted(f) == \E k \in 1..Len(deleted_files) : deleted_files[k] = f

\* C29: the date column is tested first, the age of the file second, the
\* OHLCV columns third: an old file is deleted and counted as deleted even
\* when it lacks OHLCV columns, a file without a date column is an error and
\* stays however old it is, a file without rows is never deleted, and a
\* recent file lacking OHLCV columns is an error.
C29_CheckOrder ==
    \A k \in Entries :
        LET c == Before(k)
            f == log[k].file
            old == c.rows # <<>> /\ c.latest * TicksPerDay < cutoff_date
        IN  /\ ~HasDateColumn(c) =>
                  /\ log[k].status = "error"
                  /\ log[k].message.text = "missing_date_column"
                  /\ After(k) = c
            /\ (HasDateColumn(c) /\ c.date_ok /\ old) =>
                  /\ log[k].status = "deleted"
                  /\ After(k) = Absent
                  /\ InDeleted(f) /\ ~InErrors(f)
            /\ (HasDateColumn(c) /\ c.date_ok /\ ~old /\ Lacking(c.cols) # {}) =>
                  /\ log[k].status = "error"
                  /\ log[k].message.text = "missing_columns"
                  /\ After(k) = c
            /\ c.rows = <<>> => After(k) # Absent /\ log[k].status # "deleted"

\* one sweep deleted an old file without a volume column and kept an equally
\* old file without a date column
C29_Witness ==
    /\ pc = "done"
    /\ \E k \in Entries :
          /\ Lacking(Before(k).cols) # {} /\ HasDateColumn(Before(k))
          /\ log[k].status = "deleted"
    /\ \E k \in Entries :
          /\ ~HasDateColumn(Before(k))
          /\ Before(k).latest * TicksPerDay < cutoff_date
          /\ After(k) = Before(k)

\* ------------------------------------------------ claims on repeated sweeps
\* C28 (as claimed): a sweep over a file that an earlier sweep updated leaves
\* the file's column names and their number as they were.
C28_SweepIdempotent ==
    SweepsStarted >= 2 =>
        \A k \in Entries :
            log[k].status = "updated" =>
                /\ SeqToSet(After(k).cols) = SeqToSet(Before(k).cols)
                /\ Len(After(k).cols) = Len(Before(k).cols)

====
